---- MODULE Spec2Model ----
(***************************************************************************)
(* The task Runner and the resumable progress model of m3fs                *)
(* (pkg/task: DeploymentProgress, Runner.Register / Init / Run).           *)
(*                                                                         *)
(* One deployment is a fixed list of tasks with unique names (plan): the   *)
(* name of a task is its identity in the progress model.  The deployment   *)
(* is attempted by a sequence of orchestrator processes; each process      *)
(* builds a Runner (NewRunner, Register), calls Init once every task is    *)
(* registered, and then Run.  A process can die at any point, also inside  *)
(* a write of the progress file; the file survives it.  Under Spec the     *)
(* file is absent at first and only this program writes it; SpecForeign    *)
(* starts the program on a file it did not write; SpecRerun lets the       *)
(* caller call Run again; SpecResume keeps resume enabled and every write  *)
(* and task succeeding; SpecUtil calls the Runtime's typed accessors and   *)
(* the display functions.                                                  *)
(***************************************************************************)
EXTENDS Integers, Sequences, FiniteSets, TLC

\* ------------------------------------------------------------- bounds
MaxTasks == 3
MaxAttempts == 2
MaxTime == 5
MaxRuns == 2
MaxHours == 2
MaxTotal == 12

\* The cells of the progress bar.
width == 30

\* The names the deployment's tasks are drawn from, in registration order.
AllNames == <<"A", "B", "C", "D">>

Min(a, b) == IF a < b THEN a ELSE b

\* The task lists a deployment can have: Task.Name() is the task's identity.
Plans == { SubSeq(AllNames, 1, n) : n \in 0..Min(MaxTasks, Len(AllNames)) }

Range(s) == { s[k] : k \in 1..Len(s) }

\* ------------------------------------------------------------- time.Time
\* A time.Time is its wall-clock instant plus, when it came from time.Now(),
\* a monotonic clock reading.  The zero Time has neither.
ZeroTime == [wall |-> 0, mono |-> FALSE]

TimeNow(t) == [wall |-> t, mono |-> TRUE]

IsZero(tm) == tm.wall = 0

\* The clock read by time.Now(): it never goes back; capped at MaxTime.
Advance(t) == Min(t + 1, MaxTime)

\* ------------------------------------------------------------- progress model
\* ProgressInfo{TaskID, Name, StartTime}: every other field has its zero value.
NewProgressInfo(id, name, t) ==
    [taskId |-> id, name |-> name, completed |-> FALSE, totalSteps |-> 0,
     completedSteps |-> 0, startTime |-> TimeNow(t), endTime |-> ZeroTime]

\* A Go map: mapIsNil tells the nil map (readable, not assignable) from an
\* empty one; taskProgress is the map's content.
NewDeploymentProgress(t) ==
    [startTime |-> TimeNow(t), endTime |-> ZeroTime, totalTasks |-> 0,
     completedTasks |-> 0, currentTask |-> "", mapIsNil |-> FALSE,
     taskProgress |-> <<>>]

\* Runner.Runtime before Init: no progress model is attached.
NoProgress ==
    [startTime |-> ZeroTime, endTime |-> ZeroTime, totalTasks |-> 0,
     completedTasks |-> 0, currentTask |-> "", mapIsNil |-> TRUE,
     taskProgress |-> <<>>]

MapPut(f, k, v) == [x \in (DOMAIN f) \cup {k} |-> IF x = k THEN v ELSE f[x]]

Completed(p) == { k \in DOMAIN p.taskProgress : p.taskProgress[k].completed }

\* ------------------------------------------------------------- the progress file
\* Mutant: a record is written without its end time.
MarshalInfoOmitsEndTime(r) ==
    [taskId |-> r.taskId, name |-> r.name, completed |-> r.completed,
     totalSteps |-> r.totalSteps, completedSteps |-> r.completedSteps,
     startTime |-> r.startTime.wall, endTime |-> 0]

\* json.MarshalIndent: a time.Time is written as its RFC 3339 wall-clock
\* instant (the monotonic reading is dropped; omitempty does not apply to a
\* struct, so the zero Time is written too); a nil map is written as null.
MarshalInfo(r) ==
    [taskId |-> r.taskId, name |-> r.name, completed |-> r.completed,
     totalSteps |-> r.totalSteps, completedSteps |-> r.completedSteps,
     startTime |-> r.startTime.wall, endTime |-> r.endTime.wall]

Marshal(p) ==
    [startTime |-> p.startTime.wall, endTime |-> p.endTime.wall,
     totalTasks |-> p.totalTasks, completedTasks |-> p.completedTasks,
     currentTask |-> p.currentTask, taskProgressNull |-> p.mapIsNil,
     taskProgress |-> [k \in DOMAIN p.taskProgress |-> MarshalInfo(p.taskProgress[k])]]

\* json.Unmarshal: a parsed time has no monotonic reading; null (or a missing
\* taskProgress key) leaves the map nil.
ParseTime(w) == [wall |-> w, mono |-> FALSE]

UnmarshalInfo(d) ==
    [taskId |-> d.taskId, name |-> d.name, completed |-> d.completed,
     totalSteps |-> d.totalSteps, completedSteps |-> d.completedSteps,
     startTime |-> ParseTime(d.startTime), endTime |-> ParseTime(d.endTime)]

Unmarshal(d) ==
    [startTime |-> ParseTime(d.startTime), endTime |-> ParseTime(d.endTime),
     totalTasks |-> d.totalTasks, completedTasks |-> d.completedTasks,
     currentTask |-> d.currentTask, mapIsNil |-> d.taskProgressNull,
     taskProgress |-> [k \in DOMAIN d.taskProgress |-> UnmarshalInfo(d.taskProgress[k])]]

\* What is at the progress file's path: nothing, bytes that are not a JSON
\* document (a truncated write, garbage), or a JSON document.
Absent == [kind |-> "absent", doc |-> Marshal(NoProgress)]

Malformed == [kind |-> "malformed", doc |-> Marshal(NoProgress)]

JsonFile(d) == [kind |-> "json", doc |-> d]

\* The tasks the file at the path shows as completed.
DiskCompleted(f) ==
    IF f.kind = "json"
    THEN { k \in DOMAIN f.doc.taskProgress : f.doc.taskProgress[k].completed }
    ELSE {}

\* The ways a write of the file can end.  os.MkdirAll or the open fails: the
\* file is as before.  The write fails after O_TRUNC: the file is truncated.
WriteResults == {"ok", "err_kept", "err_truncated"}

\* DeploymentProgress.SaveProgressToFile
SaveProgressToFile(p, f, out) ==
    CASE out = "ok" -> JsonFile(Marshal(p))
      [] out = "err_kept" -> f
      [] OTHER -> Malformed

\* LoadProgressFromFile: [err, progress].  A missing file is a new progress
\* and no error; a failed read or a parse error is an error.
LoadProgressFromFile(f, readOK, t) ==
    IF f.kind = "absent" THEN [err |-> FALSE, progress |-> NewDeploymentProgress(t)]
    ELSE IF ~readOK \/ f.kind = "malformed" THEN [err |-> TRUE, progress |-> NoProgress]
    ELSE [err |-> FALSE, progress |-> Unmarshal(f.doc)]

\* ------------------------------------------------------------- display
\* A float64 is mant * 2^exp.  mant is a natural number below 2^53 written
\* as three limbs of 18 bits, highest first: <<0, 0, 0>> for 0, and at least
\* 2^52 otherwise.  The values of this model are non-negative, far from
\* overflow and underflow, and the whole numbers they are made from or
\* multiplied and divided by are below 2^7 (2^17 for FloatOfInt).
Limb == 2 ^ 18

\* The number of bits of n >= 1.
BitLen(n) == CHOOSE e \in 1..30 : 2 ^ (e - 1) <= n /\ n < 2 ^ e

FloatZero == [mant |-> <<0, 0, 0>>, exp |-> 0]

\* The float64 nearest to (l3, l2, l1, l0 as limbs, plus a fraction when
\* sticky) * 2^e, ties to the even mantissa.  The limbs hold 2^52 at least.
RoundToFloat(l3, l2, l1, l0, sticky, e) ==
    LET s == IF l3 > 0 THEN BitLen(l3) + 1 ELSE BitLen(l2) - 17
        p == 2 ^ s
        up == 2 ^ (18 - s)
        k0 == (l0 \div p) + (l1 % p) * up
        k1 == (l1 \div p) + (l2 % p) * up
        k2 == (l2 \div p) + (l3 % p) * up
        rest == l0 % p
        half == p \div 2
        roundUp == s > 0 /\ (rest > half \/ (rest = half /\ (sticky \/ k0 % 2 = 1)))
        v0 == k0 + (IF roundUp THEN 1 ELSE 0)
        v1 == k1 + (v0 \div Limb)
        v2 == k2 + (v1 \div Limb)
    IN  IF v2 = 2 ^ 17 THEN [mant |-> <<2 ^ 16, 0, 0>>, exp |-> e + s + 1]
        ELSE [mant |-> <<v2, v1 % Limb, v0 % Limb>>, exp |-> e + s]

\* float64(n) of an int n >= 0: exact.
FloatOfInt(n) ==
    IF n = 0 THEN FloatZero
    ELSE [mant |-> <<n * 2 ^ (17 - BitLen(n)), 0, 0>>, exp |-> BitLen(n) - 53]

\* x * k in float64, k a whole number: the exact product, rounded.
FloatMul(x, k) ==
    LET t0 == x.mant[3] * k
        t1 == x.mant[2] * k + (t0 \div Limb)
        t2 == x.mant[1] * k + (t1 \div Limb)
    IN  IF x.mant[1] = 0 THEN FloatZero
        ELSE RoundToFloat(t2 \div Limb, t2 % Limb, t1 % Limb, t0 % Limb, FALSE, x.exp)

\* x / k in float64, k a whole number: long division of mant * 2^18 by k,
\* a remainder left over making the quotient sticky, rounded.
FloatDiv(x, k) ==
    LET n2 == x.mant[1]
        n1 == (n2 % k) * Limb + x.mant[2]
        n0 == (n1 % k) * Limb + x.mant[3]
        nx == (n0 % k) * Limb
    IN  IF x.mant[1] = 0 THEN FloatZero
        ELSE RoundToFloat(n2 \div k, n1 \div k, n0 \div k, nx \div k, nx % k # 0,
                          x.exp - 18)

\* int(x) of an x below 2^30: the fraction is cut off.
FloatToInt(x) ==
    LET sh == -x.exp - 36
    IN  IF x.mant[1] = 0 \/ sh > 17 THEN 0
        ELSE IF sh >= 0 THEN x.mant[1] \div (2 ^ sh)
        ELSE x.mant[1] * 2 ^ (-sh) + (x.mant[2] \div (2 ^ (18 + sh)))

\* DisplayProgress: the percentage shown.
Percentage(totalTasks, taskIndex) ==
    IF totalTasks > 0
    THEN FloatMul(FloatDiv(FloatOfInt(taskIndex), totalTasks), 100)
    ELSE FloatZero

\* DisplayProgress, style "bar": the cells of the bar that are filled.
CompletedWidth(totalTasks, taskIndex) ==
    FloatToInt(FloatDiv(FloatMul(Percentage(totalTasks, taskIndex), width), 100))

\* DisplayProgress, style "bar": the cells between the brackets.
Bar(completedWidth) ==
    [k \in 1..width |->
        IF k - 1 < completedWidth THEN "="
        ELSE IF k - 1 = completedWidth /\ completedWidth < width THEN ">"
        ELSE " "]

\* dp.DisplayProgress(taskIndex, taskName, progressStyle, colorAttr): what
\* is logged.  It reads dp.TotalTasks and assigns to no field of dp.
DisplayProgress(dp, taskIndex, progressStyle) ==
    [fn |-> "DisplayProgress", totalTasks |-> dp.totalTasks, taskIndex |-> taskIndex,
     style |-> progressStyle,
     percentage |-> IF progressStyle \in {"bar", "percentage"}
                    THEN Percentage(dp.totalTasks, taskIndex) ELSE FloatZero,
     bar |-> IF progressStyle = "bar"
             THEN Bar(CompletedWidth(dp.totalTasks, taskIndex)) ELSE <<>>,
     shown |-> <<taskIndex + 1, dp.totalTasks>>]

Part(n, unit) == [n |-> n, unit |-> unit]

\* Mutant: only the leading zero units are left out.
formatDurationLeadingOnly(d) ==
    LET hours == d \div 3600
        minutes == (d \div 60) % 60
        seconds == d % 60
        p1 == IF hours > 0 THEN <<Part(hours, "hours")>> ELSE <<>>
        p2 == p1 \o (IF minutes > 0 \/ Len(p1) > 0 THEN <<Part(minutes, "minutes")>> ELSE <<>>)
    IN  p2 \o <<Part(seconds, "seconds")>>

\* formatDuration of a duration of d whole seconds: the parts joined by " ".
formatDuration(d) ==
    LET hours == d \div 3600
        minutes == (d \div 60) % 60
        seconds == d % 60
        p1 == IF hours > 0 THEN <<Part(hours, "hours")>> ELSE <<>>
        p2 == p1 \o (IF minutes > 0 THEN <<Part(minutes, "minutes")>> ELSE <<>>)
    IN  p2 \o (IF seconds > 0 \/ Len(p2) = 0 THEN <<Part(seconds, "seconds")>> ELSE <<>>)

\* ------------------------------------------------------------- Runtime
\* The sync.Map embedded in Runtime, empty when the Runtime is made.
NoStore == <<>>

\* No accessor or display function has been called.
NoCallOut == [fn |-> "none"]

\* Keys of the runtime cache and values of the three types the typed
\* accessors assert; a value is its dynamic type and its printed form.
StoreKeys == {"user_token", "artifact/gzip"}

StoreValues ==
    { [type |-> "string", val |-> "tok"],
      [type |-> "bool", val |-> "true"],
      [type |-> "int", val |-> "7"] }

\* The zero value of a Go type.
ZeroValue(T) ==
    CASE T = "string" -> ""
      [] T = "bool" -> "false"
      [] OTHER -> "0"

\* Mutant: the stored value is handed back whatever its type.
TypedLoadUnchecked(st, key, T) ==
    IF key \notin DOMAIN st
    THEN [outcome |-> "returned", val |-> ZeroValue(T), ok |-> FALSE]
    ELSE [outcome |-> "returned", val |-> st[key].val, ok |-> TRUE]

\* Runtime.LoadString / LoadBool / LoadInt: Load, then valI.(T).  The
\* one-result type assertion panics when the dynamic type is not T.
TypedLoad(st, key, T) ==
    IF key \notin DOMAIN st
    THEN [outcome |-> "returned", val |-> ZeroValue(T), ok |-> FALSE]
    ELSE IF st[key].type # T
    THEN [outcome |-> "panic", val |-> "", ok |-> FALSE]
    ELSE [outcome |-> "returned", val |-> st[key].val, ok |-> TRUE]

\* The record of a typed load: what was asked and what came back.
LoadCall(fn, key, T, r) ==
    [fn |-> fn, key |-> key, type |-> T, outcome |-> r.outcome, val |-> r.val, ok |-> r.ok]

\* ------------------------------------------------------------- the Runner
VARIABLES
    plan,       \* the deployment's task list (the same in every attempt)
    attempts,   \* orchestrator processes started so far
    file,       \* what is at the progress file's path
    now,        \* the clock
    resume,     \* cfg.Deployment.ResumeEnabled of the running process
    tasks,      \* Runner.tasks
    init,       \* Runner.init
    pc,         \* where the process is
    i,          \* Run's loop index (1-based) into tasks
    progress,   \* Runner.Runtime.Progress
    result,     \* what Run returned
    ran,        \* the tasks whose run operation Run has invoked, in order
    trace,      \* history of this Run: file writes attempted, invocations, returns
    succeeded,  \* history: the tasks whose run operation has ever returned success
    restored,   \* history: the progress Init attached
    loaded,     \* history: what Init found at the file's path
    lastReg,    \* history: the Register call just made, if the last step was one
    twin,       \* the same Runner in a world where every file write succeeds
    runs,       \* calls of Run made on this Runner
    durable,    \* history: the tasks whose completion marker has reached the disk
    store,      \* Runtime's sync.Map: the key/value cache shared by the tasks
    call        \* the last call of a Runtime accessor or of a display function

vars ==
    <<plan, attempts, file, now, resume, tasks, init, pc, i, progress, result,
      ran, trace, succeeded, restored, loaded, lastReg, twin, runs, durable,
      store, call>>

\* What the Runner's own steps leave alone.
utilVars == <<store, call>>

NoResult == [kind |-> "none", task |-> "", cause |-> ""]

OkResult == [kind |-> "ok", task |-> "", cause |-> ""]

\* errors.Annotatef(err, "run task %s", task.Name())
TaskError(name, cause) == [kind |-> "err", task |-> name, cause |-> cause]

\* What the run operation of a task can fail with.
Causes == {"failed", "canceled"}

NoCall == [called |-> FALSE, args |-> <<>>, before |-> <<>>, err |-> FALSE]

\* The Runner's memory that Run reads and writes.
Mem == [pc |-> pc, i |-> i, progress |-> progress, result |-> result, ran |-> ran]

SetMem(n) ==
    /\ pc' = n.pc
    /\ i' = n.i
    /\ progress' = n.progress
    /\ result' = n.result
    /\ ran' = n.ran

FreshMem ==
    [pc |-> "new", i |-> 0, progress |-> NoProgress, result |-> NoResult, ran |-> <<>>]

DeadMem(why) == [FreshMem EXCEPT !.pc = why]

\* The twin takes the step the Runner takes while it is where the Runner is.
TwinSet(n) == twin' = IF twin.pc = pc THEN n ELSE twin

\* Mutant: Register without the init test.
RegisterTasksUnguarded(cur, ts) == [err |-> FALSE, tasks |-> cur \o ts]

\* Runner.Register
RegisterTasks(cur, ts) ==
    IF init THEN [err |-> TRUE, tasks |-> cur]
    ELSE [err |-> FALSE, tasks |-> cur \o ts]

\* Mutant: the file is loaded whether or not resume is enabled.
InitProgressTrackingAlwaysLoads(f, readOK, t) ==
    LET got == LoadProgressFromFile(f, readOK, t)
        p == IF got.err THEN NewDeploymentProgress(t) ELSE got.progress
    IN  [p EXCEPT !.totalTasks = Len(tasks)]

\* Runner.initProgressTracking
InitProgressTracking(f, readOK, t) ==
    LET got == LoadProgressFromFile(f, readOK, t)
        p == IF resume
             THEN IF got.err THEN NewDeploymentProgress(t) ELSE got.progress
             ELSE NewDeploymentProgress(t)
    IN  [p EXCEPT !.totalTasks = Len(tasks)]

\* Mutant: the resume test of saveProgress inverted.
SaveEnabledInverted == ~resume

\* Mutant: saveProgress without the resume test.
SaveEnabledAlways == TRUE

\* Runner.saveProgress writes only when resume is enabled.
SaveEnabled == resume

\* Runner.saveProgress: the file after the call, and whether it returned an error.
Saved(p, f, out) == IF SaveEnabled THEN SaveProgressToFile(p, f, out) ELSE f

SaveFailed(out) == SaveEnabled /\ out # "ok"

\* Mutant: Run without the skip test.
ShouldSkipNever(p, id) == FALSE

\* Run's skip test: resume enabled and a record of the task with Completed.
ShouldSkip(p, id) ==
    resume /\ id \in DOMAIN p.taskProgress /\ p.taskProgress[id].completed

\* Mutant: the record of a starting task is written as completed.
MarkStartedCompleted(p, name, t) ==
    [p EXCEPT !.currentTask = name,
              !.taskProgress = MapPut(@, name,
                  [NewProgressInfo(name, name, t) EXCEPT !.completed = TRUE])]

\* Mutant: the record of a starting task already carries an end time.
MarkStartedWithEndTime(p, name, t) ==
    [p EXCEPT !.currentTask = name,
              !.taskProgress = MapPut(@, name,
                  [NewProgressInfo(name, name, t) EXCEPT !.endTime = TimeNow(t)])]

\* Run, start of a task: CurrentTask and a new record of the task.
MarkStarted(p, name, t) ==
    [p EXCEPT !.currentTask = name,
              !.taskProgress = MapPut(@, name, NewProgressInfo(name, name, t))]

\* Mutant: completion without the end time.
MarkCompletedNoEndTime(p, id, t) ==
    [p EXCEPT !.taskProgress = MapPut(@, id, [p.taskProgress[id] EXCEPT !.completed = TRUE]),
              !.completedTasks = @ + 1]

\* Mutant: completion without the count.
MarkCompletedNoCount(p, id, t) ==
    [p EXCEPT !.taskProgress =
                  MapPut(@, id, [p.taskProgress[id] EXCEPT !.completed = TRUE,
                                                           !.endTime = TimeNow(t)])]

\* Run, a task returned nil: its record is completed and counted.
MarkCompleted(p, id, t) ==
    LET info == IF id \in DOMAIN p.taskProgress THEN p.taskProgress[id]
                ELSE [NewProgressInfo("", "", 0) EXCEPT !.startTime = ZeroTime]
    IN  [p EXCEPT !.taskProgress =
                      MapPut(@, id, [info EXCEPT !.completed = TRUE, !.endTime = TimeNow(t)]),
                  !.completedTasks = @ + 1]

\* Mutant: a failed saveProgress makes Run return the error.
AfterSaveAborts(m, failed) ==
    IF failed THEN [m EXCEPT !.pc = "returned", !.result = TaskError("", "save")] ELSE m

\* Run after a saveProgress call: an error is logged and Run goes on.
AfterSave(m, failed) == m

\* Mutant: the error of a task is dropped and Run goes on to the next task.
TaskFailedContinues(m, name, cause) == [m EXCEPT !.i = m.i + 1, !.pc = "loop"]

\* Mutant: the aggregate end time is also set when Run gives up on an error.
TaskFailedSetsEndTime(m, name, cause) ==
    [m EXCEPT !.progress.endTime = TimeNow(now),
              !.pc = "returned", !.result = TaskError(name, cause)]

\* Run, a task returned an error: Run returns it, annotated with the task.
TaskFailed(m, name, cause) ==
    [m EXCEPT !.pc = "returned", !.result = TaskError(name, cause)]

\* Run before Init dereferences the nil Runtime.
BeginStep(m) ==
    IF ~init THEN [m EXCEPT !.pc = "panicked"]
    ELSE [m EXCEPT !.pc = "loop", !.i = 1, !.result = NoResult, !.ran = <<>>]

SkipStep(m) == [m EXCEPT !.i = m.i + 1]

\* Assigning to an entry of a nil map panics (CurrentTask is already set).
StartStep(m, t, failed) ==
    IF m.progress.mapIsNil
    THEN [m EXCEPT !.progress.currentTask = tasks[m.i], !.pc = "panicked"]
    ELSE AfterSave([m EXCEPT !.progress = MarkStarted(m.progress, tasks[m.i], t),
                             !.pc = "invoke"], failed)

InvokeStep(m) == [m EXCEPT !.pc = "running", !.ran = Append(m.ran, tasks[m.i])]

\* Mutant: the loop does not move on after a task returned nil.
CompleteStepNoAdvance(m, t, failed) ==
    AfterSave([m EXCEPT !.progress = MarkCompleted(m.progress, tasks[m.i], t),
                        !.pc = "loop"], failed)

\* Run, a task returned nil: mark it, saveProgress, next iteration.
CompleteStep(m, t, failed) ==
    AfterSave([m EXCEPT !.progress = MarkCompleted(m.progress, tasks[m.i], t),
                        !.i = m.i + 1, !.pc = "loop"], failed)

FinishStep(m, t, failed) ==
    AfterSave([m EXCEPT !.progress.endTime = TimeNow(t),
                        !.pc = "returned", !.result = OkResult], failed)

\* ------------------------------------------------------------- history
\* A call of saveProgress: the progress it was called with, whether it wrote
\* the file (resume enabled) and whether it returned an error.
SaveEvent(p, out) ==
    [op |-> "save", task |-> "", cause |-> "", wrote |-> SaveEnabled,
     failed |-> SaveFailed(out), started |-> DOMAIN p.taskProgress,
     done |-> Completed(p), count |-> p.completedTasks]

\* task.Run is invoked ("invoke"), returns nil ("ok") or an error ("err").
TaskEvent(op, name, cause) ==
    [op |-> op, task |-> name, cause |-> cause, wrote |-> FALSE, failed |-> FALSE,
     started |-> {}, done |-> {}, count |-> 0]

\* ------------------------------------------------------------- actions
\* The chunks of tasks a caller may hand to Register once Init has run.
LateArgs == { SubSeq(AllNames, 1, 1), SubSeq(AllNames, 2, 3) }

\* NewRunner(cfg, tasks...) in a new process: the file is what the earlier
\* processes left.
NewProcess ==
    /\ pc \in {"dead", "panicked", "returned"}
    /\ attempts < MaxAttempts
    /\ attempts' = attempts + 1
    /\ resume' \in BOOLEAN
    /\ \E k \in 0..Len(plan) : tasks' = SubSeq(plan, 1, k)
    /\ init' = FALSE
    /\ SetMem(FreshMem)
    /\ twin' = FreshMem
    /\ trace' = <<>>
    /\ restored' = NoProgress
    /\ loaded' = "none"
    /\ lastReg' = NoCall
    /\ UNCHANGED utilVars
    /\ runs' = 0
    /\ UNCHANGED durable
    /\ UNCHANGED <<plan, file, now, succeeded>>

\* Runner.Register(task...).  Before Init the caller registers the next
\* tasks of the plan; after Init any call is refused.
Register ==
    /\ pc \in {"new", "ready", "returned"}
    /\ \E ts \in IF init THEN LateArgs
                 ELSE { SubSeq(plan, Len(tasks) + 1, k) : k \in (Len(tasks) + 1)..Len(plan) } :
          LET r == RegisterTasks(tasks, ts)
          IN  /\ tasks' = r.tasks
              /\ lastReg' = [called |-> TRUE, args |-> ts, before |-> tasks, err |-> r.err]
    /\ UNCHANGED <<plan, attempts, file, now, resume, init, pc, i, progress, result,
                   ran, trace, succeeded, restored, loaded, twin, runs, durable>>
    /\ UNCHANGED utilVars

\* Runner.Init, called once every task of the plan is registered.
RunnerInit ==
    /\ pc = "new"
    /\ tasks = plan
    /\ \E readOK \in BOOLEAN :
          LET p == InitProgressTracking(file, readOK, now)
              n == [Mem EXCEPT !.progress = p, !.pc = "ready"]
          IN  /\ SetMem(n)
              /\ twin' = n
              /\ restored' = p
              /\ loaded' = IF ~resume THEN "none"
                           ELSE IF file.kind = "json" /\ ~readOK THEN "unreadable"
                           ELSE file.kind
    /\ init' = TRUE
    /\ now' = Advance(now)
    /\ lastReg' = NoCall
    /\ UNCHANGED utilVars
    /\ UNCHANGED <<runs, durable>>
    /\ UNCHANGED <<plan, attempts, file, resume, tasks, trace, succeeded>>

\* Runner.Run is called: the loop starts at the first task.
RunCall ==
    /\ SetMem(BeginStep(Mem))
    /\ TwinSet(BeginStep(twin))
    /\ trace' = <<>>
    /\ lastReg' = NoCall
    /\ UNCHANGED utilVars
    /\ runs' = runs + 1
    /\ UNCHANGED durable
    /\ UNCHANGED <<plan, attempts, file, now, resume, tasks, init, succeeded, restored, loaded>>

\* The one call of Run a process makes.
RunBegin ==
    /\ pc \in {"new", "ready"}
    /\ RunCall

\* Run is called again on a Runner whose Run has returned.
RunAgain ==
    /\ pc = "returned"
    /\ runs < MaxRuns
    /\ RunCall

\* Run, the task at i is completed in the progress: continue.
RunSkip ==
    /\ pc = "loop"
    /\ i <= Len(tasks)
    /\ ShouldSkip(progress, tasks[i])
    /\ SetMem(SkipStep(Mem))
    /\ TwinSet(SkipStep(twin))
    /\ lastReg' = NoCall
    /\ UNCHANGED utilVars
    /\ UNCHANGED <<runs, durable>>
    /\ UNCHANGED <<plan, attempts, file, now, resume, tasks, init, trace, succeeded,
                   restored, loaded>>

\* Run, the task at i is started: CurrentTask, its record, saveProgress.
RunStartTask ==
    /\ pc = "loop"
    /\ i <= Len(tasks)
    /\ ~ShouldSkip(progress, tasks[i])
    /\ \E out \in WriteResults :
          LET n == StartStep(Mem, now, SaveFailed(out))
          IN  /\ SetMem(n)
              /\ TwinSet(StartStep(twin, now, FALSE))
              /\ file' = IF progress.mapIsNil THEN file ELSE Saved(n.progress, file, out)
              /\ trace' = IF progress.mapIsNil THEN trace
                          ELSE Append(trace, SaveEvent(n.progress, out))
    /\ now' = Advance(now)
    /\ lastReg' = NoCall
    /\ UNCHANGED utilVars
    /\ durable' = durable \cup DiskCompleted(file')
    /\ UNCHANGED runs
    /\ UNCHANGED <<plan, attempts, resume, tasks, init, succeeded, restored, loaded>>

\* Run calls task.Run(ctx).
Invoke ==
    /\ pc = "invoke"
    /\ SetMem(InvokeStep(Mem))
    /\ TwinSet(InvokeStep(twin))
    /\ trace' = Append(trace, TaskEvent("invoke", tasks[i], ""))
    /\ lastReg' = NoCall
    /\ UNCHANGED utilVars
    /\ UNCHANGED <<runs, durable>>
    /\ UNCHANGED <<plan, attempts, file, now, resume, tasks, init, succeeded, restored, loaded>>

\* task.Run returned nil: the record is completed, saveProgress, next task.
TaskReturnsOK ==
    /\ pc = "running"
    /\ \E out \in WriteResults :
          LET n == CompleteStep(Mem, now, SaveFailed(out))
          IN  /\ SetMem(n)
              /\ TwinSet(CompleteStep(twin, now, FALSE))
              /\ file' = Saved(n.progress, file, out)
              /\ trace' = trace \o <<TaskEvent("ok", tasks[i], ""), SaveEvent(n.progress, out)>>
    /\ succeeded' = succeeded \cup {tasks[i]}
    /\ now' = Advance(now)
    /\ lastReg' = NoCall
    /\ UNCHANGED utilVars
    /\ durable' = durable \cup DiskCompleted(file')
    /\ UNCHANGED runs
    /\ UNCHANGED <<plan, attempts, resume, tasks, init, restored, loaded>>

\* task.Run returned an error: Run returns it.
TaskReturnsErr ==
    /\ pc = "running"
    /\ \E cause \in Causes :
          /\ SetMem(TaskFailed(Mem, tasks[i], cause))
          /\ TwinSet(TaskFailed(twin, tasks[i], cause))
          /\ trace' = Append(trace, TaskEvent("err", tasks[i], cause))
    /\ lastReg' = NoCall
    /\ UNCHANGED utilVars
    /\ UNCHANGED <<runs, durable>>
    /\ UNCHANGED <<plan, attempts, file, now, resume, tasks, init, succeeded, restored, loaded>>

\* Run, after the loop: EndTime, saveProgress, return nil.
RunFinish ==
    /\ pc = "loop"
    /\ i > Len(tasks)
    /\ \E out \in WriteResults :
          LET n == FinishStep(Mem, now, SaveFailed(out))
          IN  /\ SetMem(n)
              /\ TwinSet(FinishStep(twin, now, FALSE))
              /\ file' = Saved(n.progress, file, out)
              /\ trace' = Append(trace, SaveEvent(n.progress, out))
    /\ now' = Advance(now)
    /\ lastReg' = NoCall
    /\ UNCHANGED utilVars
    /\ durable' = durable \cup DiskCompleted(file')
    /\ UNCHANGED runs
    /\ UNCHANGED <<plan, attempts, resume, tasks, init, succeeded, restored, loaded>>

Alive == pc \in {"new", "ready", "loop", "invoke", "running"}

\* The process dies (killed, power loss): its memory is gone.
Die ==
    /\ SetMem(DeadMem("dead"))
    /\ twin' = DeadMem("dead")
    /\ tasks' = <<>>
    /\ init' = FALSE
    /\ trace' = <<>>
    /\ restored' = NoProgress
    /\ loaded' = "none"
    /\ lastReg' = NoCall
    /\ UNCHANGED utilVars
    /\ runs' = 0
    /\ UNCHANGED durable
    /\ UNCHANGED <<plan, attempts, now, resume, succeeded>>

Crash ==
    /\ Alive
    /\ Die
    /\ file' = file

\* The process dies inside os.WriteFile, after the file was truncated.
CrashInWrite ==
    /\ pc \in {"loop", "running"}
    /\ SaveEnabled
    /\ ~progress.mapIsNil
    /\ Die
    /\ file' = Malformed

Init ==
    /\ plan \in Plans
    /\ attempts = 1
    /\ file = Absent
    /\ now = 1
    /\ resume \in BOOLEAN
    /\ \E k \in 0..Len(plan) : tasks = SubSeq(plan, 1, k)
    /\ init = FALSE
    /\ pc = "new"
    /\ i = 0
    /\ progress = NoProgress
    /\ result = NoResult
    /\ ran = <<>>
    /\ trace = <<>>
    /\ succeeded = {}
    /\ restored = NoProgress
    /\ loaded = "none"
    /\ lastReg = NoCall
    /\ twin = FreshMem
    /\ runs = 0
    /\ durable = {}
    /\ store = NoStore
    /\ call = NoCallOut

Next ==
    \/ NewProcess
    \/ Register
    \/ RunnerInit
    \/ RunBegin
    \/ RunSkip
    \/ RunStartTask
    \/ Invoke
    \/ TaskReturnsOK
    \/ TaskReturnsErr
    \/ RunFinish
    \/ Crash
    \/ CrashInWrite

Spec == Init /\ [][Next]_vars

NextRerun ==
    \/ Next
    \/ RunAgain

\* The same program, whose caller may call Run again after it returned.
SpecRerun == Init /\ [][NextRerun]_vars

\* The last write of the progress file made by the step succeeded.
WroteOK == ~trace'[Len(trace')].failed

ResumeNewProcess == NewProcess /\ resume'

ResumeRunnerInit == RunnerInit /\ loaded' # "unreadable"

\* Each attempt calls Init, then Run.
ResumeRunBegin == RunBegin /\ init

ResumeRunStartTask == RunStartTask /\ WroteOK

ResumeTaskReturnsOK == TaskReturnsOK /\ WroteOK

ResumeRunFinish == RunFinish /\ WroteOK

InitResume ==
    /\ Init
    /\ resume

NextResume ==
    \/ ResumeNewProcess
    \/ Register
    \/ ResumeRunnerInit
    \/ ResumeRunBegin
    \/ RunSkip
    \/ ResumeRunStartTask
    \/ Invoke
    \/ ResumeTaskReturnsOK
    \/ ResumeRunFinish
    \/ Crash
    \/ CrashInWrite

\* The deployment attempted with resume enabled in every process, every
\* read and write of the progress file that completes succeeding and every
\* task succeeding; a process can still die at any point.
SpecResume == InitResume /\ [][NextResume]_vars

\* A progress file this program did not write: hand-edited, left by another
\* tool, or by a deployment with other tasks.  {} and null parse without
\* error and leave taskProgress nil.
ForeignDoc(ids, done, n, null) ==
    [startTime |-> 1, endTime |-> 0, totalTasks |-> n, completedTasks |-> n,
     currentTask |-> "", taskProgressNull |-> null,
     taskProgress |-> [k \in ids |->
         MarshalInfo([NewProgressInfo(k, k, 1) EXCEPT
                         !.completed = k \in done,
                         !.endTime = IF k \in done THEN ParseTime(1) ELSE ZeroTime])]]

ForeignFiles ==
    { Absent, Malformed,
      JsonFile(Marshal(NoProgress)),
      JsonFile(ForeignDoc({}, {}, 0, FALSE)),
      JsonFile(ForeignDoc({"A", "Z"}, {"A"}, 1, FALSE)) }

InitForeign ==
    /\ plan \in Plans
    /\ attempts = 1
    /\ file \in ForeignFiles
    /\ now = 1
    /\ resume \in BOOLEAN
    /\ \E k \in 0..Len(plan) : tasks = SubSeq(plan, 1, k)
    /\ init = FALSE
    /\ pc = "new"
    /\ i = 0
    /\ progress = NoProgress
    /\ result = NoResult
    /\ ran = <<>>
    /\ trace = <<>>
    /\ succeeded = {}
    /\ restored = NoProgress
    /\ loaded = "none"
    /\ lastReg = NoCall
    /\ twin = FreshMem
    /\ runs = 0
    /\ durable = {}
    /\ store = NoStore
    /\ call = NoCallOut

\* The same program, started on whatever is at the progress file's path.
SpecForeign == InitForeign /\ [][Next]_vars

\* ------------------------------------------------------------- Runtime and display
runnerVars ==
    <<plan, attempts, file, now, resume, tasks, init, pc, i, progress, result,
      ran, trace, succeeded, restored, loaded, lastReg, twin, runs, durable>>

\* Runtime.Store(key, value) (sync.Map)
Store ==
    /\ \E key \in StoreKeys, v \in StoreValues :
          /\ store' = MapPut(store, key, v)
          /\ call' = [fn |-> "Store", key |-> key]
    /\ UNCHANGED runnerVars

LoadString ==
    /\ \E key \in StoreKeys :
          call' = LoadCall("LoadString", key, "string", TypedLoad(store, key, "string"))
    /\ UNCHANGED <<store, runnerVars>>

LoadBool ==
    /\ \E key \in StoreKeys :
          call' = LoadCall("LoadBool", key, "bool", TypedLoad(store, key, "bool"))
    /\ UNCHANGED <<store, runnerVars>>

LoadInt ==
    /\ \E key \in StoreKeys :
          call' = LoadCall("LoadInt", key, "int", TypedLoad(store, key, "int"))
    /\ UNCHANGED <<store, runnerVars>>

ProgressStyles == {"bar", "percentage", "simple"}

\* DisplayProgress on a progress of n tasks, for a task index within it
\* (index 0 when there is no task).
CallDisplayProgress ==
    /\ \E n \in 0..MaxTotal, taskIndex \in 0..MaxTotal, style \in ProgressStyles :
          /\ taskIndex < n \/ taskIndex = 0
          /\ call' = DisplayProgress([progress EXCEPT !.totalTasks = n], taskIndex, style)
    /\ UNCHANGED <<store, runnerVars>>

\* The durations formatDuration is called with: whole seconds, with the
\* minutes and the seconds at the ends and next to the ends of their range.
Durations ==
    { h * 3600 + m * 60 + sec : h \in 0..MaxHours, m \in {0, 1, 59}, sec \in {0, 1, 59} }

CallFormatDuration ==
    /\ \E d \in Durations :
          call' = [fn |-> "formatDuration", d |-> d, parts |-> formatDuration(d)]
    /\ UNCHANGED <<store, runnerVars>>

\* A Runner after Init, with no task, and its Runtime.
InitUtil ==
    /\ plan = <<>>
    /\ attempts = 1
    /\ file = Absent
    /\ now = 2
    /\ resume = FALSE
    /\ tasks = <<>>
    /\ init = TRUE
    /\ pc = "ready"
    /\ i = 0
    /\ progress = NewDeploymentProgress(1)
    /\ result = NoResult
    /\ ran = <<>>
    /\ trace = <<>>
    /\ succeeded = {}
    /\ restored = NewDeploymentProgress(1)
    /\ loaded = "none"
    /\ lastReg = NoCall
    /\ twin = [FreshMem EXCEPT !.pc = "ready", !.progress = NewDeploymentProgress(1)]
    /\ runs = 0
    /\ durable = {}
    /\ store = NoStore
    /\ call = NoCallOut

NextUtil ==
    \/ Store
    \/ LoadString
    \/ LoadBool
    \/ LoadInt
    \/ CallDisplayProgress
    \/ CallFormatDuration

\* The Runtime's cache and the display functions, called in any order.
SpecUtil == InitUtil /\ [][NextUtil]_vars

\* ------------------------------------------------------------- properties
InRun == pc \in {"loop", "invoke", "running", "returned"}

ReturnedOK == pc = "returned" /\ result.kind = "ok"

ReturnedErr == pc = "returned" /\ result.kind = "err"

\* The position of a task in the Runner's list (names are unique).
IndexOf(name) == CHOOSE k \in 1..Len(tasks) : tasks[k] = name

Events(op) == { k \in 1..Len(trace) : trace[k].op = op }

\* C1: in a Run with resume enabled, a registered task that is completed in
\* the restored progress is never invoked, its record stays as restored,
\* the step that skips it changes nothing of the progress or the file, and
\* no step of the Run makes it the current task.
C1_CompletedTaskSkipped ==
    [][ (InRun' /\ resume') =>
          \A T \in Completed(restored') \cap Range(tasks') :
             /\ T \notin Range(ran')
             /\ T \in DOMAIN progress'.taskProgress
             /\ progress'.taskProgress[T] = restored'.taskProgress[T]
             /\ (progress'.currentTask = T => progress.currentTask = T)
             /\ (pc = "loop" /\ pc' = "loop" /\ i <= Len(tasks) /\ tasks[i] = T) =>
                   (i' = i + 1 /\ progress' = progress /\ file' = file) ]_vars

\* C1 witness: a resumed Run went past a task completed in the restored
\* progress and then invoked another task.
C1_Witness ==
    /\ resume
    /\ pc = "running"
    /\ i > 1
    /\ tasks[1] \in Completed(restored)

\* C2: when a task's run operation returns an error, Run has returned, with
\* an error naming the task and carrying the cause; nothing was done after
\* it (no save, no invocation), no later task was invoked, and the current
\* task is the failed one.
C2_FailureStopsRun ==
    \A k \in Events("err") :
        /\ k = Len(trace)
        /\ pc = "returned"
        /\ result = TaskError(trace[k].task, trace[k].cause)
        /\ progress.currentTask = trace[k].task
        /\ ran # <<>> /\ ran[Len(ran)] = trace[k].task
        /\ \A j \in 1..Len(tasks) : j > IndexOf(trace[k].task) => tasks[j] \notin Range(ran)
        /\ trace[k].task \notin Completed(progress)

\* C2 witness: a task that is not the last one was cancelled.
C2_Witness ==
    /\ ReturnedErr
    /\ result.cause = "canceled"
    /\ i < Len(tasks)
    /\ i > 1

\* C3: when Run returns success, completedTasks is the number of registered
\* tasks and every record is completed with an end time, not before its
\* start time.
C3_SuccessMeansAllCompleted ==
    ReturnedOK =>
        /\ progress.completedTasks = Len(tasks)
        /\ \A k \in DOMAIN progress.taskProgress :
              /\ progress.taskProgress[k].completed
              /\ ~IsZero(progress.taskProgress[k].endTime)
              /\ progress.taskProgress[k].endTime.wall >= progress.taskProgress[k].startTime.wall

\* C3 witness: three tasks, the first completed in the restored progress
\* and skipped, the other two run by this Run.
C3_Witness ==
    /\ ReturnedOK
    /\ resume
    /\ Len(tasks) = 3
    /\ Completed(restored) = {tasks[1]}
    /\ ran = <<tasks[2], tasks[3]>>

\* C4: at every call of saveProgress, completedTasks is the number of
\* completed records; so it is in every progress document on disk.
C4_CountMatchesCompleted ==
    /\ \A k \in Events("save") : trace[k].count = Cardinality(trace[k].done)
    /\ file.kind = "json" =>
          file.doc.completedTasks =
             Cardinality({ k \in DOMAIN file.doc.taskProgress : file.doc.taskProgress[k].completed })

\* C4 witness: a resumed Run saved after a start marker with one task
\* already completed.
C4_Witness ==
    /\ resume
    /\ pc = "invoke"
    /\ trace # <<>>
    /\ trace[Len(trace)].op = "save"
    /\ trace[Len(trace)].count >= 1
    /\ Completed(restored) # {}

\* C5: the file on disk shows a task completed only if its run operation
\* has returned success, in this process or an earlier one.
C5_DiskCompletedOnlyAfterSuccess ==
    file.kind = "json" =>
        \A k \in DOMAIN file.doc.taskProgress :
            file.doc.taskProgress[k].completed => k \in succeeded

\* C5 witness: after a crash the file shows one task completed and another,
\* whose run had returned success too, not completed.
C5_Witness ==
    /\ pc = "dead"
    /\ file.kind = "json"
    /\ \E a \in succeeded : a \in DOMAIN file.doc.taskProgress /\ file.doc.taskProgress[a].completed
    /\ \E b \in succeeded : b \in DOMAIN file.doc.taskProgress /\ ~file.doc.taskProgress[b].completed

\* C6: with resume enabled, a task's invocation directly follows the
\* attempted write of its record with completed = false; a write showing a
\* task of this Run completed comes only after its run returned success,
\* and that return is directly followed by such a write.
C6_WritesOrdered ==
    resume =>
        /\ \A k \in Events("invoke") :
              /\ k > 1
              /\ trace[k - 1].op = "save" /\ trace[k - 1].wrote
              /\ trace[k].task \in trace[k - 1].started \ trace[k - 1].done
        /\ \A k \in Events("ok") :
              /\ k > 1 /\ trace[k - 1] = TaskEvent("invoke", trace[k].task, "")
              /\ k < Len(trace)
              /\ trace[k + 1].op = "save" /\ trace[k + 1].wrote
              /\ trace[k].task \in trace[k + 1].done
        /\ \A k \in Events("save") : \A T \in trace[k].done \cap Range(ran) :
              \E j \in 1..(k - 1) : trace[j] = TaskEvent("ok", T, "")

\* C6 witness: a resumed Run has started, run and completed one task and
\* invoked the next.
C6_Witness ==
    /\ resume
    /\ pc = "running"
    /\ Len(ran) = 2
    /\ Events("ok") # {}

\* C7: whatever writes fail, the Runner's memory (position, progress, the
\* tasks invoked, the result) is what it is when every write succeeds.
C7_WriteFailuresSwallowed == twin = Mem

\* C7 witness: Run returned success after two tasks although a write failed
\* and a later write succeeded.
C7_Witness ==
    /\ ReturnedOK
    /\ Len(ran) >= 2
    /\ \E j, k \in Events("save") : j < k /\ trace[j].failed /\ trace[k].wrote /\ ~trace[k].failed

\* C8: with resume enabled, whatever the file is, Init and the Run after it
\* are never aborted because of the file; from a missing or an unusable file
\* the progress is a fresh one with totalTasks set, and Run runs every task.
C8_ResumeNeverAborts ==
    (resume /\ init) =>
        /\ pc # "panicked"
        /\ progress.totalTasks = Len(tasks)
        /\ (pc = "ready" /\ loaded \in {"absent", "malformed", "unreadable"}) =>
              /\ progress.taskProgress = <<>>
              /\ ~progress.mapIsNil
              /\ progress.completedTasks = 0
        /\ (ReturnedOK /\ loaded \in {"absent", "malformed", "unreadable"}) => ran = tasks

\* C9: with resume disabled the progress Init attaches is fresh, and Run
\* invokes the registered tasks in order, all of them unless one fails.
C9_NoResumeRunsAll ==
    (~resume /\ init) =>
        /\ pc = "ready" =>
              /\ progress.taskProgress = <<>>
              /\ ~progress.mapIsNil
              /\ progress.completedTasks = 0
        /\ InRun => ran = SubSeq(tasks, 1, Len(ran))
        /\ pc = "loop" => Len(ran) = i - 1
        /\ ReturnedOK => ran = tasks

\* C9 witness: resume is disabled, the file shows the first task completed,
\* and Run has run every task.
C9_Witness ==
    /\ ~resume
    /\ ReturnedOK
    /\ Len(tasks) >= 2
    /\ file.kind = "json"
    /\ tasks[1] \in DOMAIN file.doc.taskProgress
    /\ file.doc.taskProgress[tasks[1]].completed

\* C10: Register after Init returns an error and leaves the tasks alone;
\* before Init it appends its arguments in order; after Init totalTasks is
\* the number of registered tasks.
C10_RegisterGuarded ==
    [][ /\ lastReg'.called =>
              /\ lastReg'.before = tasks
              /\ IF init THEN lastReg'.err /\ tasks' = tasks
                 ELSE ~lastReg'.err /\ tasks' = tasks \o lastReg'.args
        /\ init' => progress'.totalTasks = Len(tasks') ]_vars

\* C10 witness: a Register call after Init was refused.
C10_Witness ==
    /\ init
    /\ lastReg.called
    /\ lastReg.err
    /\ Len(lastReg.args) = 2
    /\ Len(tasks) >= 2

\* C11: in every Run the tasks invoked are a subsequence of the registration
\* order (each at most once), the tasks left out before the loop index are
\* exactly the skipped ones, and a task is invoked only after the task
\* invoked before it has returned: one task is outstanding while a task
\* runs, none otherwise.
C11_OneAtATimeInOrder ==
    InRun =>
      /\ Range(ran) \subseteq Range(tasks)
      /\ \A a, b \in 1..Len(ran) : a < b => IndexOf(ran[a]) < IndexOf(ran[b])
      /\ \A k \in 1..Len(tasks) :
            (k < i /\ tasks[k] \notin Range(ran)) =>
               (resume /\ tasks[k] \in Completed(restored))
      /\ \A a, b \in Events("invoke") :
            a < b => \E c \in Events("ok") : a < c /\ c < b /\ trace[c].task = trace[a].task
      /\ Cardinality(Events("invoke")) - Cardinality(Events("ok") \cup Events("err"))
            = IF pc = "running" THEN 1 ELSE 0

\* C11 witness: a resumed Run left out its first task and is running the
\* second of the tasks it invoked.
C11_Witness ==
    /\ resume
    /\ pc = "running"
    /\ Len(ran) = 2
    /\ tasks[1] \notin Range(ran)

\* C12: in the progress model in memory and in the progress file, a task's
\* record has its end time set exactly when it is completed.
C12_EndTimeIffCompleted ==
    /\ \A k \in DOMAIN progress.taskProgress :
          progress.taskProgress[k].completed <=> ~IsZero(progress.taskProgress[k].endTime)
    /\ file.kind = "json" =>
          \A k \in DOMAIN file.doc.taskProgress :
             file.doc.taskProgress[k].completed <=> file.doc.taskProgress[k].endTime # 0

\* C12 witness: one record completed with its end time, another started and
\* not completed, in memory and on disk.
C12_Witness ==
    /\ pc = "running"
    /\ Completed(progress) # {}
    /\ Completed(progress) # DOMAIN progress.taskProgress
    /\ file.kind = "json"
    /\ file.doc = Marshal(progress)

\* C13: on a Runner that Init has set up, the aggregate end time is written
\* by the step on which Run returns success, with the time of that step
\* (whatever it held before: a resumed Run overwrites the restored value),
\* and no other step changes it; the step on which Run returns a task's
\* error leaves it as it was.
C13_EndTimeSetOnSuccessOnly ==
    [][ (init /\ init') =>
          IF pc # "returned" /\ pc' = "returned" /\ result'.kind = "ok"
          THEN progress'.endTime = TimeNow(now)
          ELSE progress'.endTime = progress.endTime ]_vars

\* C13 as stated: the aggregate end time is set on the step on which Run
\* returns, with success or with a task's error, it is set once (it was
\* unset before), and no other step changes it.
C13_EndTimeSetOnceWhenRunEnds ==
    [][ (init /\ init') =>
          /\ (pc # "returned" /\ pc' = "returned") => ~IsZero(progress'.endTime)
          /\ (progress'.endTime # progress.endTime) =>
                (IsZero(progress.endTime) /\ pc # "returned" /\ pc' = "returned") ]_vars

\* C13 witness: a resumed Run of a deployment that had finished has returned
\* success and replaced the end time restored from the file.
C13_Witness ==
    /\ ReturnedOK
    /\ resume
    /\ ~IsZero(restored.endTime)
    /\ progress.endTime.wall # restored.endTime.wall

\* time.Time.Equal: the same instant, with or without a monotonic reading.
SameInstant(a, b) == a.wall = b.wall

EqualInfo(a, b) ==
    /\ a.taskId = b.taskId
    /\ a.name = b.name
    /\ a.completed = b.completed
    /\ a.totalSteps = b.totalSteps
    /\ a.completedSteps = b.completedSteps
    /\ SameInstant(a.startTime, b.startTime)
    /\ SameInstant(a.endTime, b.endTime)

\* Two DeploymentProgress values equal field by field, times as instants.
EqualProgress(p, q) ==
    /\ SameInstant(p.startTime, q.startTime)
    /\ SameInstant(p.endTime, q.endTime)
    /\ p.totalTasks = q.totalTasks
    /\ p.completedTasks = q.completedTasks
    /\ p.currentTask = q.currentTask
    /\ p.mapIsNil = q.mapIsNil
    /\ DOMAIN p.taskProgress = DOMAIN q.taskProgress
    /\ \A k \in DOMAIN p.taskProgress : EqualInfo(p.taskProgress[k], q.taskProgress[k])

IsTypedLoad == call.fn \in {"LoadString", "LoadBool", "LoadInt"}

\* The stored value of the key just loaded has another type than asked.
LoadMismatch ==
    /\ IsTypedLoad
    /\ call.key \in DOMAIN store
    /\ store[call.key].type # call.type

\* C15: a typed load of a key whose stored value has another type panics:
\* it returns nothing to its caller, no value with ok = true and no error;
\* a typed load of a missing key returns the zero value with ok = false.
C15_TypedLoadPanicsOnMismatch ==
    IsTypedLoad =>
      /\ LoadMismatch => (call.outcome = "panic" /\ ~call.ok)
      /\ call.key \notin DOMAIN store =>
            (call.outcome = "returned" /\ call.val = ZeroValue(call.type) /\ ~call.ok)

\* C15 as stated: on a type mismatch the load hands a type error back to
\* its caller, without ok = true; on a missing key, the zero value with
\* ok = false.
C15_TypedLoadReturnsTypeError ==
    IsTypedLoad =>
      /\ LoadMismatch => (call.outcome = "error" /\ ~call.ok)
      /\ call.key \notin DOMAIN store =>
            (call.outcome = "returned" /\ call.val = ZeroValue(call.type) /\ ~call.ok)

\* C15 witness: LoadInt of a key that holds a string.
C15_Witness ==
    /\ LoadMismatch
    /\ call.fn = "LoadInt"
    /\ store[call.key].type = "string"

IsFormatDuration == call.fn = "formatDuration"

UnitRank(unit) ==
    CASE unit = "hours" -> 1
      [] unit = "minutes" -> 2
      [] OTHER -> 3

\* The hours, minutes and seconds of d seconds, by rank.
UnitValue(d, rank) ==
    CASE rank = 1 -> CHOOSE h \in 0..(MaxHours + 1) : h * 3600 <= d /\ d < (h + 1) * 3600
      [] rank = 2 -> CHOOSE m \in 0..59 : \E h \in 0..(MaxHours + 1) :
                        h * 3600 + m * 60 <= d /\ d < h * 3600 + (m + 1) * 60
      [] OTHER -> CHOOSE sec \in 0..59 : \E q \in 0..((MaxHours + 1) * 60) : d = q * 60 + sec

Shown(rank) == \E k \in 1..Len(call.parts) : UnitRank(call.parts[k].unit) = rank

\* The parts name hours, minutes, seconds in this order, each at most
\* once, each with its value.
PartsInOrder ==
    /\ \A a, b \in 1..Len(call.parts) :
          a < b => UnitRank(call.parts[a].unit) < UnitRank(call.parts[b].unit)
    /\ \A k \in 1..Len(call.parts) :
          call.parts[k].unit \in {"hours", "minutes", "seconds"}
          /\ call.parts[k].n = UnitValue(call.d, UnitRank(call.parts[k].unit))

\* C16: formatDuration of whole seconds returns the hours, minutes and
\* seconds in this order, leaving out every unit that is zero, leading or
\* not, and returns "0 seconds" when all three are zero.
C16_ZeroUnitsOmitted ==
    IsFormatDuration =>
      /\ PartsInOrder
      /\ \A rank \in 1..3 :
            Shown(rank) <=> (UnitValue(call.d, rank) # 0 \/ (rank = 3 /\ call.d = 0))

\* C16 as stated: only the leading zero units are left out; a zero unit
\* after a non-zero unit is shown.
C16_LeadingZeroUnitsOmitted ==
    IsFormatDuration =>
      /\ PartsInOrder
      /\ \A rank \in 1..3 :
            Shown(rank) <=> ((\E r \in 1..rank : UnitValue(call.d, r) # 0)
                             \/ (rank = 3 /\ call.d = 0))

\* C16 witness: one hour and one second: the zero minutes between them are
\* left out.
C16_Witness ==
    /\ IsFormatDuration
    /\ call.d = 3601
    /\ call.parts = <<Part(1, "hours"), Part(1, "seconds")>>

\* C17: for a progress of totalTasks > 0 and 0 <= taskIndex < totalTasks
\* the bar has 30 cells: floor(30 * taskIndex / totalTasks) filled cells,
\* then the transition marker, then spaces; the percentage is 0 when
\* totalTasks is 0.
C17_BarFillIsExactFloor ==
    call.fn = "DisplayProgress" =>
      /\ call.totalTasks = 0 => call.percentage = FloatZero
      /\ (call.style = "bar" /\ call.totalTasks > 0 /\ call.taskIndex < call.totalTasks) =>
            LET filled == (width * call.taskIndex) \div call.totalTasks
            IN  /\ Len(call.bar) = width
                /\ \A k \in 1..width :
                      call.bar[k] = IF k <= filled THEN "="
                                    ELSE IF k = filled + 1 THEN ">"
                                    ELSE " "

\* C18: while resume is disabled no step of the Runner changes what is at
\* the progress file's path, and Init attaches a new progress whatever is
\* there, without looking at it.
C18_NoResumeNoFileAccess ==
    [][ ~resume =>
          /\ file' = file
          /\ (pc = "new" /\ pc' = "ready") =>
                /\ progress' = [NewDeploymentProgress(now) EXCEPT !.totalTasks = Len(tasks)]
                /\ loaded' = "none" ]_vars

\* C18 witness: a process with resume disabled has run a task to the end
\* of Run while the file an earlier process wrote is still there.
C18_Witness ==
    /\ ~resume
    /\ ReturnedOK
    /\ Len(ran) >= 1
    /\ file.kind = "json"

\* C19: with resume enabled in every attempt and every write and task
\* succeeding, a Run that comes to its end has returned success with every
\* task completed on disk, and no task whose completion marker has reached
\* the disk is invoked again, whatever crashes came before.
C19_CrashRecovery ==
    /\ pc \in {"returned", "panicked"} => ReturnedOK
    /\ ReturnedOK => (file.kind = "json" /\ Range(tasks) \subseteq DiskCompleted(file))
    /\ pc = "running" => tasks[i] \notin durable

\* C20: after Init, whatever the number of calls of Run, the count of
\* completed tasks is within 0..totalTasks.
C20_CountWithinTotal ==
    init => (0 <= progress.completedTasks /\ progress.completedTasks <= progress.totalTasks)
====
